---- MODULE Spec2Model ----
(***************************************************************************)
(* Model of record-api (src/app.js): an Express service whose four record  *)
(* routes proxy to the Notion client, with a multer upload step in front   *)
(* of POST /records and PUT /records/:id and a static mount of the upload  *)
(* directory.                                                              *)
(*                                                                         *)
(* JavaScript values are tagged records: Undef is `undefined`, Str(s) a    *)
(* string, Num(n) a number, NaN the not-a-number value.  The `id` form     *)
(* field and file names are sequences of one-character strings so that     *)
(* parseInt and path.extname are computed character by character.          *)
(***************************************************************************)
EXTENDS Integers, Sequences, FiniteSets, TLC

\* ---------------------------------------------------------------- bounds
NumReqs == 2        \* concurrent requests in flight
MaxClock == 1       \* Date.now() ranges over 0..MaxClock
MaxIdLen == 2       \* longest `id` form field, in characters

Reqs == 1..NumReqs

\* ------------------------------------------------------------- JS values
Undef == [t |-> "undef"]
NaN == [t |-> "nan"]
Null == [t |-> "null"]
Num(n) == [t |-> "num", v |-> n]
Str(s) == [t |-> "str", v |-> s]

\* x || d : the right operand when the left one is falsy
OrDefault(x, d) == IF x.t \in {"undef", "null", "nan"} THEN d
                   ELSE IF x.t = "str" /\ x.v = "" THEN d
                   ELSE x

\* -------------------------------------------------------------- parseInt
Digits == {"0", "1", "2", "3", "4", "5", "6", "7", "8", "9"}

DigitVal(c) == CASE c = "0" -> 0 [] c = "1" -> 1 [] c = "2" -> 2 [] c = "3" -> 3
                 [] c = "4" -> 4 [] c = "5" -> 5 [] c = "6" -> 6 [] c = "7" -> 7
                 [] c = "8" -> 8 [] c = "9" -> 9

RECURSIVE StripLeft(_)
StripLeft(s) == IF s # << >> /\ Head(s) = " " THEN StripLeft(Tail(s)) ELSE s

RECURSIVE LeadingDigits(_)
LeadingDigits(s) == IF s # << >> /\ Head(s) \in Digits
                    THEN <<Head(s)>> \o LeadingDigits(Tail(s))
                    ELSE << >>

RECURSIVE DigitsValue(_, _)
DigitsValue(ds, acc) == IF ds = << >> THEN acc
                        ELSE DigitsValue(Tail(ds), 10 * acc + DigitVal(Head(ds)))

\* parseInt(x) with no radix: ToString, skip leading white space, an optional
\* sign, then the longest run of decimal digits; NaN when that run is empty.
\* (The alphabet of the model's ids has no "x", so the 0x prefix never occurs.)
parseIntBroken(x) == IF x.t # "str" THEN NaN
                     ELSE IF LeadingDigits(x.v) = << >> THEN NaN
                     ELSE Num(DigitsValue(<<Head(x.v)>>, 0))

parseInt(x) ==
    IF x.t # "str" THEN NaN
    ELSE LET s == StripLeft(x.v)
             neg == s # << >> /\ Head(s) = "-"
             signed == s # << >> /\ Head(s) \in {"-", "+"}
             ds == LeadingDigits(IF signed THEN Tail(s) ELSE s)
         IN IF ds = << >> THEN NaN
            ELSE Num(IF neg THEN 0 - DigitsValue(ds, 0) ELSE DigitsValue(ds, 0))

\* ---------------------------------------------------------- path.extname
\* Index of the last "." of a name, 0 when it has none.
RECURSIVE LastDot(_, _)
LastDot(s, i) == IF i = 0 THEN 0 ELSE IF s[i] = "." THEN i ELSE LastDot(s, i - 1)

\* path.extname(name): from the last "." to the end; empty when there is no
\* "." or when the only "." is the first character.
extname(name) == LET d == LastDot(name, Len(name))
                 IN IF d <= 1 THEN << >> ELSE SubSeq(name, d, Len(name))

\* ------------------------------------------------------------ the record
FormFields == {"id", "company", "campaign", "content", "description",
               "plannedDate", "where", "language", "imageContent"}

\* swaggerOptions.components.schemas.Record.required
Required == {"id", "company", "campaign", "content", "description",
             "plannedDate", "where", "language"}

PropertyNames == {"ID", "Company", "Campaign", "Content", "Description",
                  "PlannedDate", "Where", "Language", "Image", "image content"}

databaseId == "db"

RichText(x) == [rich_text |-> <<[text |-> [content |-> x]]>>]

\* The Image property: one external-file reference when there is a URL.
ImageFiles(imageUrl) ==
    IF imageUrl # Null
    THEN [files |-> <<[type |-> "external", name |-> "Campaign Image",
                       external |-> [url |-> imageUrl]]>>]
    ELSE [files |-> << >>]

\* The `properties` literal of POST /records (the literal of PUT /records/:id,
\* lines 212-223, is the same text).  b is the destructured req.body.
PropertiesOmitImage(b, imageUrl) ==
    LET rest == [ID |-> [number |-> parseInt(b["id"])],
                 Company |-> [title |-> <<[text |-> [content |-> b["company"]]]>>],
                 Campaign |-> RichText(b["campaign"]),
                 Content |-> RichText(b["content"]),
                 Description |-> RichText(b["description"]),
                 PlannedDate |-> [date |-> [start |-> b["plannedDate"]]],
                 Where |-> RichText(b["where"]),
                 Language |-> [select |-> [name |-> b["language"]]]]
                @@ ("image content" :> RichText(OrDefault(b["imageContent"], Str(""))))
    IN IF imageUrl # Null THEN rest @@ [Image |-> ImageFiles(imageUrl)] ELSE rest

Properties(b, imageUrl) ==
    [ID |-> [number |-> parseInt(b["id"])],
     Company |-> [title |-> <<[text |-> [content |-> b["company"]]]>>],
     Campaign |-> RichText(b["campaign"]),
     Content |-> RichText(b["content"]),
     Description |-> RichText(b["description"]),
     PlannedDate |-> [date |-> [start |-> b["plannedDate"]]],
     Where |-> RichText(b["where"]),
     Language |-> [select |-> [name |-> b["language"]]],
     Image |-> ImageFiles(imageUrl)]
    @@ ("image content" :> RichText(OrDefault(b["imageContent"], Str(""))))

\* `${req.protocol}://${req.get('host')}/uploads/${req.file.filename}`, or null
\* without req.file.
ImageUrlMounted(protocol, host, file) ==
    IF file # Undef
    THEN [scheme |-> protocol, host |-> host, path |-> <<"Image", file.filename>>]
    ELSE Null

ImageUrl(protocol, host, file) ==
    IF file # Undef
    THEN [scheme |-> protocol, host |-> host, path |-> <<"uploads", file.filename>>]
    ELSE Null

\* storage.filename: Date.now() + path.extname(file.originalname).  The string
\* is kept as its two parts: the decimal timestamp ends where the extension
\* (empty, or starting with ".") begins.
Filename(now, originalname) == [ts |-> now, ext |-> extname(originalname)]

\* ------------------------------------------------------------- responses
\* res.status(500).json({ error: error.message })
ErrorResponse(error) ==
    [status |-> 500, type |-> "json", body |-> [error |-> error.message]]

SuccessStatusAll200(op) == 200

\* The status of the success branch of each handler (res.json alone is 200).
SuccessStatus(op) == CASE op = "create" -> 201
                       [] op = "retrieve" -> 200
                       [] op = "update" -> 200
                       [] op = "delete" -> 204

\* res.status(201).json(response) / res.json(response) / res.status(204).send()
SuccessResponse(op, response) ==
    IF op = "delete"
    THEN [status |-> SuccessStatus(op), type |-> "none", body |-> Undef]
    ELSE [status |-> SuccessStatus(op), type |-> "json", body |-> response]

\* Express's final handler, which answers an error passed to next(err) by a
\* middleware: status err.status or 500, an HTML page.
FinalHandlerResponse(error) ==
    [status |-> 500, type |-> "html", body |-> [pre |-> error.message]]

SendTwice(sent, response) == sent \o <<response, response>>

\* One res.json / res.send on the response of a request.
Send(sent, response) == Append(sent, response)

\* ----------------------------------------------------------- remote args
DeleteArgsHard(id) == [page_id |-> id, archived |-> FALSE]

\* notion.pages.update({ page_id: req.params.id, archived: true })
DeleteArgs(id) == [page_id |-> id, archived |-> TRUE]

Call(method, args) == [method |-> method, args |-> args]

\* ----------------------------------------------------------------- state
VARIABLES
    pc,         \* per request: "new", "handler", "awaiting", "settled", "done"
    req,        \* per request: the inbound request (op, params, body, part, ...)
    file,       \* per request: req.file as multer left it
    clock,      \* Date.now()
    disk,       \* the Image/ directory: files by name, each with its content
    calls,      \* per request: the calls made on the Notion client, in order
    remote,     \* per request: the promise of its remote call
    responses   \* per request: the responses sent, in order

vars == <<pc, req, file, clock, disk, calls, remote, responses>>

NoReq == [op |-> "none"]
NoPart == [fieldname |-> "none"]
NoPromise == [state |-> "none"]

Init ==
    /\ pc = [r \in Reqs |-> "new"]
    /\ req = [r \in Reqs |-> NoReq]
    /\ file = [r \in Reqs |-> Undef]
    /\ clock = 0
    /\ disk = {}
    /\ calls = [r \in Reqs |-> << >>]
    /\ remote = [r \in Reqs |-> NoPromise]
    /\ responses = [r \in Reqs |-> << >>]

\* Time passes.
Tick ==
    /\ clock < MaxClock
    /\ clock' = clock + 1
    /\ UNCHANGED <<pc, req, file, disk, calls, remote, responses>>

\* diskStorage: the file is written under its generated name, replacing a
\* file of that name.
WriteFile(d, name, data) == {f \in d : f.name # name} \cup {[name |-> name, data |-> data]}

\* upload.single('image') on an inbound POST /records or PUT /records/:id.
\* A file part in the field "image" is stored and becomes req.file; a file
\* part in another field is an error handed to next(err), which Express's
\* final handler answers; without a file part req.file stays undefined.
\* (multer gives every multipart request a body object, so a request with a
\* file part never has an undefined req.body.)
UploadSingle(r, op, id, body, part, protocol, host) ==
    /\ pc[r] = "new"
    /\ op \in {"create", "update"}
    /\ body = Undef => part = NoPart
    /\ req' = [req EXCEPT ![r] = [op |-> op, id |-> id, body |-> body, part |-> part,
                                  protocol |-> protocol, host |-> host]]
    /\ IF part = NoPart
       THEN /\ pc' = [pc EXCEPT ![r] = "handler"]
            /\ UNCHANGED <<file, disk, responses>>
       ELSE IF part.fieldname = "image"
       THEN /\ file' = [file EXCEPT ![r] =
                           [filename |-> Filename(clock, part.originalname)]]
            /\ disk' = WriteFile(disk, Filename(clock, part.originalname), r)
            /\ pc' = [pc EXCEPT ![r] = "handler"]
            /\ UNCHANGED responses
       ELSE /\ responses' = [responses EXCEPT ![r] =
                   Send(@, FinalHandlerResponse([message |-> "Unexpected field"]))]
            /\ pc' = [pc EXCEPT ![r] = "done"]
            /\ UNCHANGED <<file, disk>>
    /\ UNCHANGED <<clock, calls, remote>>

\* The body of a mapping handler up to its await: destructuring req.body
\* throws when it is undefined (caught: 500), else the remote call is issued.
MapAndCall(r, method, args) ==
    IF req[r].body = Undef
    THEN /\ responses' = [responses EXCEPT ![r] =
                Send(@, ErrorResponse([message |-> "Cannot destructure"]))]
         /\ pc' = [pc EXCEPT ![r] = "done"]
         /\ UNCHANGED <<calls, remote>>
    ELSE /\ calls' = [calls EXCEPT ![r] = Append(@, Call(method, args))]
         /\ remote' = [remote EXCEPT ![r] = [state |-> "pending"]]
         /\ pc' = [pc EXCEPT ![r] = "awaiting"]
         /\ UNCHANGED responses

\* app.post('/records'), to its await.
PostRecords(r) ==
    /\ pc[r] = "handler"
    /\ req[r].op = "create"
    /\ MapAndCall(r, "pages.create",
          [parent |-> [database_id |-> databaseId],
           properties |-> Properties(req[r].body,
                              ImageUrl(req[r].protocol, req[r].host, file[r]))])
    /\ UNCHANGED <<req, file, clock, disk>>

\* app.put('/records/:id'), to its await.
PutRecords(r) ==
    /\ pc[r] = "handler"
    /\ req[r].op = "update"
    /\ MapAndCall(r, "pages.update",
          [page_id |-> req[r].id,
           properties |-> Properties(req[r].body,
                              ImageUrl(req[r].protocol, req[r].host, file[r]))])
    /\ UNCHANGED <<req, file, clock, disk>>

\* app.get('/records/:id'), to its await.
GetRecord(r, id) ==
    /\ pc[r] = "new"
    /\ req' = [req EXCEPT ![r] = [op |-> "retrieve", id |-> id, body |-> Undef,
                                  part |-> NoPart, protocol |-> "http",
                                  host |-> "localhost:3000"]]
    /\ calls' = [calls EXCEPT ![r] = Append(@, Call("pages.retrieve", [page_id |-> id]))]
    /\ remote' = [remote EXCEPT ![r] = [state |-> "pending"]]
    /\ pc' = [pc EXCEPT ![r] = "awaiting"]
    /\ UNCHANGED <<file, clock, disk, responses>>

\* app.delete('/records/:id'), to its await.
DeleteRecord(r, id) ==
    /\ pc[r] = "new"
    /\ req' = [req EXCEPT ![r] = [op |-> "delete", id |-> id, body |-> Undef,
                                  part |-> NoPart, protocol |-> "http",
                                  host |-> "localhost:3000"]]
    /\ calls' = [calls EXCEPT ![r] = Append(@, Call("pages.update", DeleteArgs(id)))]
    /\ remote' = [remote EXCEPT ![r] = [state |-> "pending"]]
    /\ pc' = [pc EXCEPT ![r] = "awaiting"]
    /\ UNCHANGED <<file, clock, disk, responses>>

\* The page object the provider answers a call with.
RemotePage(r) == [object |-> "page",
                  id |-> IF req[r].op = "create" THEN "new-page" ELSE req[r].id]

\* The provider answers the pending call of r.
RemoteFulfil(r) ==
    /\ pc[r] = "awaiting"
    /\ remote' = [remote EXCEPT ![r] = [state |-> "fulfilled", value |-> RemotePage(r)]]
    /\ pc' = [pc EXCEPT ![r] = "settled"]
    /\ UNCHANGED <<req, file, clock, disk, calls, responses>>

\* The provider rejects the pending call of r (or the call fails in transit).
RemoteReject(r, message) ==
    /\ pc[r] = "awaiting"
    /\ remote' = [remote EXCEPT ![r] = [state |-> "rejected", value |-> [message |-> message]]]
    /\ pc' = [pc EXCEPT ![r] = "settled"]
    /\ UNCHANGED <<req, file, clock, disk, calls, responses>>

\* The handler of r resumes after its await: the success response of its
\* operation, or the catch block.
Resume(r) ==
    /\ pc[r] = "settled"
    /\ responses' = [responses EXCEPT ![r] =
          Send(@, IF remote[r].state = "fulfilled"
                  THEN SuccessResponse(req[r].op, remote[r].value)
                  ELSE ErrorResponse(remote[r].value))]
    /\ pc' = [pc EXCEPT ![r] = "done"]
    /\ UNCHANGED <<req, file, clock, disk, calls, remote>>

\* express.static('Image') mounted at /Image: a GET of a path.
StaticGet(path) ==
    IF path[1] = "Image" /\ \E f \in disk : f.name = path[2]
    THEN [status |-> 200, data |-> (CHOOSE f \in disk : f.name = path[2]).data]
    ELSE [status |-> 404, data |-> 0]

\* ---------------------------------------------------------------- inputs
Chars == {"4", "2", "-", " ", "a"}

Ids == UNION {[1..n -> Chars] : n \in 0..MaxIdLen}

Captions == {Undef, Str(""), Str("banner")}

PageIds == {"page-1"}

FullBody(id, caption) ==
    [f \in FormFields |->
        CASE f = "id" -> Str(id)
          [] f = "company" -> Str("Acme")
          [] f = "campaign" -> Str("Launch")
          [] f = "content" -> Str("text")
          [] f = "description" -> Str("desc")
          [] f = "plannedDate" -> Str("2024-01-01")
          [] f = "where" -> Str("Facebook")
          [] f = "language" -> Str("English")
          [] f = "imageContent" -> caption]

Without(b, f) == [b EXCEPT ![f] = Undef]

EmptyBody == [f \in FormFields |-> Undef]

\* Bodies of the mapping specification: every id with every caption, each
\* required field missing in turn, an empty form, and no body at all.
MapBodies == {FullBody(id, Undef) : id \in Ids}
             \cup {FullBody(<<"4", "2">>, c) : c \in Captions}
             \cup {Without(FullBody(<<"4", "2">>, Undef), f) : f \in Required}
             \cup {EmptyBody, Undef}

MapNames == {<<"a", ".", "p">>, <<"a">>, <<".", "p">>, <<"a", ".", "b", ".", "p">>}

MapParts == {NoPart, [fieldname |-> "photo", originalname |-> <<"a", ".", "p">>]}
            \cup {[fieldname |-> "image", originalname |-> n] : n \in MapNames}

\* Inputs of the concurrent specification.
ConcBodies == {FullBody(<<"4", "2">>, Undef), Undef}

ConcParts == {NoPart,
              [fieldname |-> "image", originalname |-> <<"a", ".", "p">>],
              [fieldname |-> "photo", originalname |-> <<"a", ".", "p">>]}

\* ----------------------------------------------------------- behaviours
Arrive(R, Bodies, Parts, Protocols) ==
    \E r \in R :
        \/ \E op \in {"create", "update"}, body \in Bodies, part \in Parts,
              protocol \in Protocols :
              UploadSingle(r, op, IF op = "update" THEN "page-1" ELSE "",
                           body, part, protocol, "localhost:3000")
        \/ \E id \in PageIds : GetRecord(r, id)
        \/ \E id \in PageIds : DeleteRecord(r, id)

Handle(R) ==
    \E r \in R :
        \/ PostRecords(r)
        \/ PutRecords(r)
        \/ RemoteFulfil(r)
        \/ \E m \in {"validation_error"} : RemoteReject(r, m)
        \/ Resume(r)

\* Concurrent requests with few inputs.
Next == Tick \/ Arrive(Reqs, ConcBodies, ConcParts, {"http"}) \/ Handle(Reqs)

Spec == Init /\ [][Next]_vars

\* The same requests arriving within one millisecond (only the upload step
\* reads the clock, and no branch depends on it), with the event loop running
\* every handler whose awaited promise has settled.
FairNext == Arrive(Reqs, ConcBodies, ConcParts, {"http"}) \/ Handle(Reqs)

FairSpec == Init /\ [][FairNext]_vars /\ \A r \in Reqs : WF_vars(Resume(r))

\* One request with many inputs: the mapping as a function of the payload.
MapNext == Tick \/ Arrive({1}, MapBodies, MapParts, {"http", "https"}) \/ Handle({1})

MapSpec == Init /\ [][MapNext]_vars


\* ------------------------------------------------------------ properties
Arrived(r) == pc[r] # "new"
Done(r) == pc[r] = "done"
Mapping(r) == Arrived(r) /\ req[r].op \in {"create", "update"}
Called(r) == calls[r] # << >>
Settled(r) == remote[r].state \in {"fulfilled", "rejected"}
Sent(r) == responses[r][1]
PropsSent(r) == calls[r][1].args.properties

\* C1: every request whose handling failed (in the upload step, in the
\* mapping or in the remote call) is answered 500 with a JSON body holding an
\* `error` string.
C1_FailuresAre500Json ==
    \A r \in Reqs :
        (Done(r) /\ remote[r].state # "fulfilled") =>
            /\ Len(responses[r]) = 1
            /\ Sent(r).status = 500
            /\ Sent(r).type = "json"
            /\ DOMAIN Sent(r).body = {"error"}

\* C2: a request whose remote call succeeded is answered with the status and
\* body of its operation (201 / 200 / 200 with the remote object, 204 with no
\* body), and a success status is sent only when the remote call succeeded.
C2_SuccessResponses ==
    \A r \in Reqs :
        Done(r) =>
            /\ remote[r].state = "fulfilled" =>
                  responses[r] = <<
                     CASE req[r].op = "create" ->
                            [status |-> 201, type |-> "json", body |-> remote[r].value]
                       [] req[r].op = "retrieve" ->
                            [status |-> 200, type |-> "json", body |-> remote[r].value]
                       [] req[r].op = "update" ->
                            [status |-> 200, type |-> "json", body |-> remote[r].value]
                       [] req[r].op = "delete" ->
                            [status |-> 204, type |-> "none", body |-> Undef] >>
            /\ \A i \in 1..Len(responses[r]) :
                  responses[r][i].status < 400 => remote[r].state = "fulfilled"

C2_Witness ==
    \E r, q \in Reqs :
        /\ Done(r) /\ req[r].op = "create" /\ remote[r].state = "fulfilled"
        /\ Done(q) /\ req[q].op = "delete" /\ remote[q].state = "rejected"

\* C3: a Delete makes exactly one remote call, pages.update of its page with
\* archived true and no properties, and answers with no body on success.
C3_DeleteArchives ==
    \A r \in Reqs :
        (Arrived(r) /\ req[r].op = "delete") =>
            /\ Len(calls[r]) = 1
            /\ calls[r][1].method = "pages.update"
            /\ DOMAIN calls[r][1].args = {"page_id", "archived"}
            /\ calls[r][1].args.page_id = req[r].id
            /\ calls[r][1].args.archived = TRUE
            /\ (Done(r) /\ remote[r].state = "fulfilled") =>
                  (Sent(r).type = "none" /\ Sent(r).body = Undef)

C3_Witness ==
    \E r \in Reqs : Done(r) /\ req[r].op = "delete" /\ remote[r].state = "fulfilled"

\* The integer a canonical decimal string denotes, by place value.
RECURSIVE Pow10(_)
Pow10(n) == IF n = 0 THEN 1 ELSE 10 * Pow10(n - 1)

RECURSIVE PlaceValue(_, _)
PlaceValue(ds, i) ==
    IF i > Len(ds) THEN 0
    ELSE DigitVal(ds[i]) * Pow10(Len(ds) - i) + PlaceValue(ds, i + 1)

IsDecimal(s) == s # << >> /\ \A i \in 1..Len(s) : s[i] \in Digits

IntegerString(s) == IsDecimal(s) \/ (s # << >> /\ Head(s) = "-" /\ IsDecimal(Tail(s)))

IntegerOf(s) == IF Head(s) = "-" THEN 0 - PlaceValue(Tail(s), 1) ELSE PlaceValue(s, 1)

\* A valid payload: every required field present, the id an integer string.
ValidBody(b) ==
    /\ b # Undef
    /\ \A f \in Required : b[f] # Undef
    /\ IntegerString(b["id"].v)

TextProperty(x) == <<[text |-> [content |-> x]]>>

\* C4: for a valid Create payload the properties sent to pages.create are
\* exactly the ten of the Field Mapper, each of its type, the id parsed as an
\* integer ("42" gives 42) and the caption defaulting to the empty string.
C4_CreateMapping ==
    \A r \in Reqs :
        (Arrived(r) /\ req[r].op = "create" /\ Called(r) /\ ValidBody(req[r].body)) =>
            LET b == req[r].body
                p == PropsSent(r)
            IN /\ calls[r][1].method = "pages.create"
               /\ DOMAIN p = PropertyNames
               /\ p["ID"] = [number |-> [t |-> "num", v |-> IntegerOf(b["id"].v)]]
               /\ b["id"].v = <<"4", "2">> => p["ID"].number.v = 42
               /\ p["Company"] = [title |-> TextProperty(b["company"])]
               /\ p["Campaign"] = [rich_text |-> TextProperty(b["campaign"])]
               /\ p["Content"] = [rich_text |-> TextProperty(b["content"])]
               /\ p["Description"] = [rich_text |-> TextProperty(b["description"])]
               /\ p["Where"] = [rich_text |-> TextProperty(b["where"])]
               /\ p["PlannedDate"] = [date |-> [start |-> b["plannedDate"]]]
               /\ p["Language"] = [select |-> [name |-> b["language"]]]
               /\ DOMAIN p["Image"] = {"files"}
               /\ p["image content"] = [rich_text |-> TextProperty(
                     IF b["imageContent"] \in {Undef, Str("")} THEN Str("")
                     ELSE b["imageContent"])]

C4_Witness ==
    \E r \in Reqs :
        /\ Arrived(r) /\ req[r].op = "create" /\ Called(r) /\ ValidBody(req[r].body)
        /\ req[r].body["id"].v = <<"4", "2">>
        /\ req[r].body["imageContent"] = Undef
        /\ PropsSent(r)["ID"].number.v = 42

\* C5: the Image property of a Create or Update is an empty files list when
\* the request carried no image, and exactly one external-file reference to
\* {scheme}://{host}/uploads/{generated filename} when it carried one.
C5_ImageFiles ==
    \A r \in Reqs :
        (Mapping(r) /\ Called(r)) =>
            IF req[r].part = NoPart
            THEN PropsSent(r)["Image"] = [files |-> << >>]
            ELSE /\ Len(PropsSent(r)["Image"].files) = 1
                 /\ PropsSent(r)["Image"].files[1].type = "external"
                 /\ PropsSent(r)["Image"].files[1].external.url =
                       [scheme |-> req[r].protocol, host |-> req[r].host,
                        path |-> <<"uploads", file[r].filename>>]
                 /\ req[r].part.originalname = <<"a", ".", "b", ".", "p">> =>
                       file[r].filename.ext = <<".", "p">>
                 /\ \E f \in disk : f.name = file[r].filename

C5_Witness ==
    \E r \in Reqs :
        /\ Mapping(r) /\ Called(r) /\ req[r].op = "update"
        /\ req[r].part # NoPart
        /\ req[r].part.originalname = <<"a", ".", "b", ".", "p">>
        /\ req[r].protocol = "https"

\* C6: the URL stored for an uploaded image is served by the static mount: a
\* GET of its path returns a stored file.
C6_UrlIsServed ==
    \A r \in Reqs :
        (Mapping(r) /\ Called(r) /\ file[r] # Undef) =>
            StaticGet(PropsSent(r)["Image"].files[1].external.url.path).status = 200

\* C7: no remote create or update call is issued for a payload that lacks a
\* required field.
C7_RequiredBeforeCall ==
    \A r \in Reqs :
        (Mapping(r) /\ Called(r)) =>
            \A f \in Required : req[r].body[f] # Undef

\* C8: concurrent uploads get distinct filenames, so every request with an
\* image still finds its own upload under its filename.
C8_UploadsKept ==
    \A r \in Reqs :
        file[r] # Undef =>
            /\ \A q \in Reqs \ {r} :
                  file[q] # Undef => file[q].filename # file[r].filename
            /\ [name |-> file[r].filename, data |-> r] \in disk

\* C9 as stated: without a file part the property set has no Image property.
C9_ImageOmitted ==
    \A r \in Reqs :
        (Mapping(r) /\ Called(r) /\ req[r].part = NoPart) =>
            "Image" \notin DOMAIN PropsSent(r)

\* C9 amended: without a file part no URL is produced and the request is not
\* failed for it (its remote call is issued whenever it has a body), and the
\* property set keeps the Image property, with an empty files list.
C9_ImageEmptyWithoutFile ==
    \A r \in Reqs :
        (Mapping(r) /\ req[r].part = NoPart /\ pc[r] # "handler") =>
            /\ file[r] = Undef
            /\ req[r].body # Undef =>
                  /\ Len(calls[r]) = 1
                  /\ "Image" \in DOMAIN PropsSent(r)
                  /\ PropsSent(r)["Image"].files = << >>
            /\ (Done(r) /\ remote[r].state = "fulfilled") => Sent(r).status < 400

C9_Witness ==
    \E r \in Reqs :
        /\ Mapping(r) /\ req[r].part = NoPart /\ Done(r)
        /\ remote[r].state = "fulfilled"
        /\ PropsSent(r)["Image"].files = << >>

\* C10: a request makes at most one remote call, answers at most once and,
\* when it made a call, only after the call settled; and once its call has
\* settled it is eventually answered, whatever the other requests do.
C10_OneCallOneResponse ==
    /\ [](\A r \in Reqs :
            /\ Len(calls[r]) <= 1
            /\ Len(responses[r]) <= 1
            /\ (Called(r) /\ responses[r] # << >>) => Settled(r))
    /\ \A r \in Reqs : Settled(r) ~> (Len(responses[r]) = 1)

C10_Witness ==
    \E r, q \in Reqs :
        /\ Settled(r) /\ Len(responses[r]) = 1 /\ Len(calls[r]) = 1
        /\ pc[q] = "awaiting"

====
